---- MODULE Spec2Model ----
(***************************************************************************)
(* A model of motiondetect's two bookkeeping structures (src/buffer.go):   *)
(*   MatBuffer  - the ring buffer of timestamped frames, and its export;   *)
(*   FPSCounter - the rolling per-second frame counter, with its ticking   *)
(*                goroutine and the unsynchronised NextFrame of the        *)
(*                capture loop.                                            *)
(* Go slices are 0-based, TLA+ sequences 1-based: Go index i is i + 1.     *)
(* A *gocv.Mat is modelled as the number of the matrix it points to, and   *)
(* the matrices themselves live in mats.  A time.Time is an integer number *)
(* of time units, 0 being the zero time.Time{}; a float64 quotient a / b   *)
(* is kept exact as the pair <<a, b>>.                                     *)
(***************************************************************************)
EXTENDS Integers, Sequences, FiniteSets, TLC

\* ---------------------------------------------------------------- bounds
MaxFPS10 == 6       \* largest camera frame rate tried, in tenths of a frame/s
MaxWrites == 7      \* Add calls per run (2 * 3 + 1: several wraps of 3 slots)
MaxGap == 2         \* largest gap between two Add timestamps
FrameSizes == {<<1, 1>>, <<2, 1>>, <<1, 2>>}   \* <<Cols, Rows>> of a frame
MaxSeconds == 2     \* largest window length of an FPSCounter
MaxTasks == 2       \* Start calls per run
MaxTime == 4        \* firings of the ticker per run
MaxFrames == 2      \* NextFrame calls per run
MaxRate == 2        \* largest steady frame rate tried, in frames per second
SteadyTime == 8     \* firings of the ticker in a steady run
EvenFPS10 == 20     \* largest camera frame rate of an evenly spaced run
EvenWrites == 20    \* Add calls of an evenly spaced run
MaxSnaps == 2       \* Slice calls of a run besides the one of WriteFile

BufferDuration == 5 \* seconds
WindowLength == 5   \* NewFPSCounter(5)
ZeroTime == 0       \* time.Time{}
UnitsPerSecond == 10 \* Seconds(): time units of 100 ms in a second

VARIABLES
  \* MatBuffer
  imgs,        \* b.imgs: sequence of pointers to matrices
  times,       \* b.times
  writes,      \* b.writes
  mats,        \* the matrices b.imgs points to: [id, cols, rows]
  clock,       \* time.Now() of the capture loop
  history,     \* every Add so far: <<frame id, timestamp>> (history variable)
  bpc,         \* the capture loop: "loop", "saved", "panic"
  logged,      \* main.go:196: <<buffer.Duration(), buffer.FPS()>>
  export,      \* outcome of WriteFile: [err, opened, vwFPS, vwSize, written, closed]
  snapped      \* b.writes at each call of Slice so far (history variable)


VARIABLES
  \* FPSCounter
  cFPS,          \* c.FPS, the quotient <<totalFrames, totalDuration>>
  ticks,         \* c.ticks
  frames,        \* c.frames
  durations,     \* c.durations
  totalFrames,   \* c.totalFrames
  totalDuration, \* c.totalDuration
  tickerOn,      \* c.ticker is set and running
  tickerC,       \* c.ticker.C, a channel of 1 time: 0 when empty
  now,           \* the wall clock, in ticker periods (seconds)
  tpc,           \* each runTicker goroutine's position
  lastTime,      \* each goroutine's lastTime
  lastDuration,  \* each goroutine's lastDuration
  idx,           \* each goroutine's idx
  mpc,           \* the caller: "ready", inside NextFrame, or blocked in Stop
  nfIdx,         \* NextFrame: the index it computed
  nfVal,         \* NextFrame: the count it read
  started,       \* Start calls
  stopped,       \* Stop calls that returned
  nframes,       \* NextFrame calls that returned
  perSecond,     \* steady driver: frames signalled per second
  inInterval,    \* steady driver: frames signalled since the last firing
  commits        \* what each handled tick committed: [bucket, frames, duration]
                 \* (history variable)

VARIABLES
  \* MatBuffer.Close
  cpc,         \* Close: "off", "open" (not called), "first", "again", "closed"
  ci,          \* Close: the index of the range loop
  closeLog,    \* every img.Close() call so far: [slot, failed]
  closeErr     \* Close: err, <<>> being nil, else <<slot, number of the call>>

clsVars == <<cpc, ci, closeLog, closeErr>>
bufVars == <<imgs, times, writes, mats, clock, history, bpc, logged, export,
             snapped>>
cntVars == <<cFPS, ticks, frames, durations, totalFrames, totalDuration,
             tickerOn, tickerC, now, tpc, lastTime, lastDuration, idx,
             mpc, nfIdx, nfVal, started, stopped, nframes, perSecond, inInterval,
             commits>>
vars == <<bufVars, cntVars, clsVars>>

Min(a, b) == IF a < b THEN a ELSE b

EmptyMat == [id |-> 0, cols |-> 0, rows |-> 0]   \* gocv.NewMat()
NoExport == [err |-> "not run", opened |-> FALSE, vwFPS |-> <<0, 1>>,
             vwSize |-> <<0, 0>>, written |-> <<>>, closed |-> FALSE]

\* ------------------------------------------------------------- MatBuffer
\* frames := int(fps * duration.Seconds()), fps given in tenths
NewMatBufferFrames(duration, fps10) == (fps10 * duration) \div 10

InitBuffer ==
  /\ \E fps10 \in 0..MaxFPS10 :
       LET nslots == NewMatBufferFrames(BufferDuration, fps10) IN
         /\ imgs = [i \in 1..nslots |-> i]
         /\ times = [i \in 1..nslots |-> ZeroTime]
         /\ mats = [i \in 1..nslots |-> EmptyMat]
  /\ writes = 0
  /\ clock = 1
  /\ history = <<>>
  /\ bpc = "loop"
  /\ logged = <<>>
  /\ export = NoExport
  /\ snapped = <<>>

Cap == Len(imgs)

\* (mutant) TimeWindow without the branch for a buffer that has not wrapped
TimeWindowNoPartial ==
  IF writes = 0 THEN <<ZeroTime, ZeroTime>>
  ELSE LET first == writes % Len(imgs)
           last == (writes - 1 + Len(imgs)) % Len(imgs)
       IN <<times[first + 1], times[last + 1]>>

\* TimeWindow returns the timestamps of the first and last frames added.
TimeWindow ==
  IF writes = 0 THEN <<ZeroTime, ZeroTime>>
  ELSE IF writes <= Len(imgs) THEN <<times[0 + 1], times[(writes - 1) + 1]>>
  ELSE LET first == writes % Len(imgs)
           last == (writes - 1 + Len(imgs)) % Len(imgs)
       IN <<times[first + 1], times[last + 1]>>

\* newest.Sub(oldest)
Duration == TimeWindow[2] - TimeWindow[1]

Count == Len(imgs)

\* (mutant) FPS dividing the slot count whether or not the buffer is full
FPSAlwaysCount ==
  IF writes < 2 THEN <<0, 1>> ELSE <<Len(imgs), TimeWindow[2] - TimeWindow[1]>>

\* the float64 quotient, as <<numerator, seconds>>
FPS ==
  IF writes < 2 THEN <<0, 1>>
  ELSE IF writes < Len(imgs) THEN <<writes, Duration>>
  ELSE <<Len(imgs), Duration>>

\* b.imgs[lo:hi] and append(x, y...)
GoSlice(s, lo, hi) == SubSeq(s, lo + 1, hi)

\* (mutant) Slice handing out the slots in physical order after a wrap
SliceNoRotate ==
  IF writes <= Len(imgs) THEN GoSlice(imgs, 0, writes) ELSE imgs

Slice ==
  IF writes <= Len(imgs) THEN GoSlice(imgs, 0, writes)
  ELSE LET i == writes % Len(imgs)
       IN GoSlice(imgs, i, Len(imgs)) \o GoSlice(imgs, 0, i)

\* the backing array after append(array[lo:hi], xs...): Go appends in place
\* while the result fits the capacity of array[lo:hi], which reaches the end
\* of the array, and into a new array otherwise
AppendBacking(array, lo, hi, xs) ==
  IF (hi - lo) + Len(xs) <= Len(array) - lo
    THEN [p \in 1..Len(array) |->
            IF p > hi /\ p <= hi + Len(xs) THEN xs[p - hi] ELSE array[p]]
  ELSE array

\* (mutant) Slice keeping the rotated list as the buffer's own
ImgsAfterSliceStored == IF writes <= Len(imgs) THEN imgs ELSE Slice

\* b.imgs after a call of Slice: b.imgs[0:b.writes] writes nothing, the
\* append of line 98 writes what Go's append writes
ImgsAfterSlice ==
  IF writes <= Len(imgs) THEN imgs
  ELSE LET i == writes % Len(imgs)
       IN AppendBacking(imgs, i, Len(imgs), GoSlice(imgs, 0, i))

\* a call of Slice by the buffer's user
CallSlice ==
  /\ bpc = "loop"
  /\ Len(snapped) < MaxSnaps
  /\ imgs' = ImgsAfterSlice
  /\ snapped' = Append(snapped, writes)
  /\ UNCHANGED <<times, writes, mats, clock, history, bpc, logged, export,
                 cntVars, clsVars>>

\* (mutant) Add counting the write before it picks the slot
AddCountsFirst(img, t) ==
  /\ bpc = "loop"
  /\ IF Len(imgs) = 0
       THEN /\ bpc' = "panic"
            /\ UNCHANGED <<imgs, times, writes, mats, history>>
       ELSE LET i == (writes + 1) % Len(imgs) IN
            /\ mats' = [mats EXCEPT ![imgs[i + 1]] = img]
            /\ times' = [times EXCEPT ![i + 1] = t]
            /\ writes' = writes + 1
            /\ history' = Append(history, <<img.id, t>>)
            /\ UNCHANGED <<imgs, bpc>>
  /\ clock' = t
  /\ UNCHANGED <<logged, export, snapped, cntVars, clsVars>>

\* Add(img, t): with no slot, writes % len(b.imgs) is a division by zero
Add(img, t) ==
  /\ bpc = "loop"
  /\ IF Len(imgs) = 0
       THEN /\ bpc' = "panic"
            /\ UNCHANGED <<imgs, times, writes, mats, history>>
       ELSE LET i == writes % Len(imgs) IN
            /\ mats' = [mats EXCEPT ![imgs[i + 1]] = img]
            /\ times' = [times EXCEPT ![i + 1] = t]
            /\ writes' = writes + 1
            /\ history' = Append(history, <<img.id, t>>)
            /\ UNCHANGED <<imgs, bpc>>
  /\ clock' = t
  /\ UNCHANGED <<logged, export, snapped, cntVars, clsVars>>

\* main.go:189, buffer.Add(&img, time.Now()): the frame read is a new one
CaptureFrame ==
  /\ writes < MaxWrites
  /\ \E size \in FrameSizes, gap \in 1..MaxGap :
       Add([id |-> Len(history) + 1, cols |-> size[1], rows |-> size[2]], clock + gap)

\* the capture loop with frames of one size arriving 100 ms apart: here the
\* time unit is 100 ms
CaptureEven ==
  /\ writes < EvenWrites
  /\ Add([id |-> Len(history) + 1, cols |-> 1, rows |-> 1], clock + 1)

\* (mutant) the guard of WriteFile letting a single frame through
TooFewFramesOffByOne(n) == n < 1

\* len(imgs) < 2
TooFewFrames(n) == n < 2

\* (mutant) the loop skipping a frame of another size instead of failing
RECURSIVE WriteLoopSkip(_, _, _, _, _)
WriteLoopSkip(list, k, width, height, failAt) ==
  IF k > Len(list)
    THEN [err |-> "ok",
          written |-> SelectSeq(list, LAMBDA p : mats[p].cols = width
                                                 /\ mats[p].rows = height)]
  ELSE IF failAt = k
    THEN [err |-> "WriteFailed", written |-> SubSeq(list, 1, k - 1)]
  ELSE WriteLoopSkip(list, k + 1, width, height, failAt)

\* (mutant) the loop ending one frame early
RECURSIVE WriteLoopShort(_, _, _, _, _)
WriteLoopShort(list, k, width, height, failAt) ==
  IF k >= Len(list) THEN [err |-> "ok", written |-> SubSeq(list, 1, Len(list) - 1)]
  ELSE LET img == mats[list[k]] IN
    IF img.cols # width \/ img.rows # height
      THEN [err |-> "DimensionMismatch", written |-> SubSeq(list, 1, k - 1)]
    ELSE IF failAt = k
      THEN [err |-> "WriteFailed", written |-> SubSeq(list, 1, k - 1)]
    ELSE WriteLoopShort(list, k + 1, width, height, failAt)

\* the loop of WriteFile from frame k on; its result names the frames written
RECURSIVE WriteLoop(_, _, _, _, _)
WriteLoop(list, k, width, height, failAt) ==
  IF k > Len(list) THEN [err |-> "ok", written |-> list]
  ELSE LET img == mats[list[k]] IN
    IF img.cols # width \/ img.rows # height
      THEN [err |-> "DimensionMismatch", written |-> SubSeq(list, 1, k - 1)]
    ELSE IF failAt = k
      THEN [err |-> "WriteFailed", written |-> SubSeq(list, 1, k - 1)]
    ELSE WriteLoop(list, k + 1, width, height, failAt)

\* WriteFile; openOk and failAt are the video writer's answers: whether it
\* opens, and which Write it rejects (0: none)
WriteFile(openOk, failAt) ==
  LET list == Slice IN
  IF TooFewFrames(Len(list))
    THEN [NoExport EXCEPT !.err = "InsufficientFrames"]
  ELSE LET width == mats[list[1]].cols
           height == mats[list[1]].rows
       IN IF ~openOk
            THEN [NoExport EXCEPT !.err = "WriterOpenFailed", !.vwFPS = FPS,
                                  !.vwSize = <<width, height>>]
          ELSE LET r == WriteLoop(list, 1, width, height, failAt)
               IN [err |-> r.err, opened |-> TRUE, vwFPS |-> FPS,
                   vwSize |-> <<width, height>>,
                   written |-> [k \in 1..Len(r.written) |-> mats[r.written[k]]],
                   closed |-> TRUE]

\* main.go:196-199, after the loop
Save ==
  /\ bpc = "loop"
  /\ \E openOk \in BOOLEAN, failAt \in 0..Len(imgs) :
       export' = WriteFile(openOk, failAt)
  /\ imgs' = ImgsAfterSlice
  /\ snapped' = Append(snapped, writes)
  /\ logged' = <<Duration, FPS>>
  /\ bpc' = "saved"
  /\ UNCHANGED <<times, writes, mats, clock, history, cntVars, clsVars>>

\* --------------------------------------------------------- MatBuffer.Close
\* main.go:158, defer buffer.Close(): var err error, then the range loop
CloseBegin ==
  /\ cpc = "open"
  /\ cpc' = "first"
  /\ ci' = 0
  /\ closeErr' = <<>>
  /\ UNCHANGED <<closeLog, bufVars, cntVars>>

\* lines 36-38: if err == nil { err = img.Close() }; whether the release
\* fails is the library's answer
CloseFirst ==
  /\ cpc = "first"
  /\ ci < Len(imgs)
  /\ IF closeErr = <<>>
       THEN \E failed \in BOOLEAN :
              /\ closeLog' = Append(closeLog, [slot |-> imgs[ci + 1], failed |-> failed])
              /\ closeErr' = IF failed THEN <<imgs[ci + 1], Len(closeLog) + 1>>
                                       ELSE <<>>
       ELSE UNCHANGED <<closeLog, closeErr>>
  /\ cpc' = "again"
  /\ UNCHANGED <<ci, bufVars, cntVars>>

\* (mutant) Close returning at the first release that failed
CloseAgainStop ==
  /\ cpc = "again"
  /\ IF closeErr # <<>>
       THEN /\ cpc' = "closed"
            /\ UNCHANGED <<ci, closeLog>>
       ELSE /\ \E failed \in BOOLEAN :
                 closeLog' = Append(closeLog, [slot |-> imgs[ci + 1], failed |-> failed])
            /\ ci' = ci + 1
            /\ cpc' = "first"
  /\ UNCHANGED <<closeErr, bufVars, cntVars>>

\* line 39: img.Close(), whatever err is; its result is dropped
CloseAgain ==
  /\ cpc = "again"
  /\ \E failed \in BOOLEAN :
       closeLog' = Append(closeLog, [slot |-> imgs[ci + 1], failed |-> failed])
  /\ ci' = ci + 1
  /\ cpc' = "first"
  /\ UNCHANGED <<closeErr, bufVars, cntVars>>

\* line 41: return err
CloseReturn ==
  /\ cpc = "first"
  /\ ci = Len(imgs)
  /\ cpc' = "closed"
  /\ UNCHANGED <<ci, closeLog, closeErr, bufVars, cntVars>>

\* ------------------------------------------------------------ FPSCounter
Tasks == 1..MaxTasks

\* NewFPSCounter(seconds); no goroutine runs yet
NewFPSCounter(seconds) ==
  /\ cFPS = <<0, 1>>
  /\ ticks = 0
  /\ frames = [i \in 1..seconds |-> 0]
  /\ durations = [i \in 1..seconds |-> 0]
  /\ totalFrames = 0
  /\ totalDuration = 0
  /\ tickerOn = FALSE
  /\ tickerC = 0
  /\ now = 0
  /\ tpc = [t \in Tasks |-> "none"]
  /\ lastTime = [t \in Tasks |-> 0]
  /\ lastDuration = [t \in Tasks |-> 0]
  /\ idx = [t \in Tasks |-> 0]
  /\ mpc = "ready"
  /\ nfIdx = 0
  /\ nfVal = 0
  /\ started = 0
  /\ stopped = 0
  /\ nframes = 0
  /\ inInterval = 0
  /\ commits = <<>>

\* Start: go c.runTicker().  The caller keeps to Start's contract: no second
\* Start unless Stop was called (and returned) first.
Start ==
  /\ mpc = "ready"
  /\ started = stopped
  /\ started < MaxTasks
  /\ started' = started + 1
  /\ tpc' = [tpc EXCEPT ![started + 1] = "new"]
  /\ UNCHANGED <<cFPS, ticks, frames, durations, totalFrames, totalDuration,
                 tickerOn, tickerC, now, lastTime, lastDuration, idx,
                 mpc, nfIdx, nfVal, stopped, nframes, perSecond, inInterval, bufVars, clsVars, commits>>

\* runTicker, lines 171-172: lastTime := time.Now(); c.ticker = NewTicker
RunTickerInit(t) ==
  /\ tpc[t] = "new"
  /\ lastTime' = [lastTime EXCEPT ![t] = now]
  /\ tickerOn' = TRUE
  /\ tickerC' = 0
  /\ tpc' = [tpc EXCEPT ![t] = "first"]
  /\ UNCHANGED <<cFPS, ticks, frames, durations, totalFrames, totalDuration,
                 now, lastDuration, idx, mpc, nfIdx, nfVal, started, stopped,
                 nframes, perSecond, inInterval, bufVars, clsVars, commits>>

\* the ticker fires once a period; its channel holds one time, a firing that
\* finds it full is dropped
TickerFire ==
  /\ tickerOn
  /\ now < MaxTime
  /\ now' = now + 1
  /\ tickerC' = IF tickerC = 0 THEN now + 1 ELSE tickerC
  /\ UNCHANGED <<cFPS, ticks, frames, durations, totalFrames, totalDuration,
                 tickerOn, tpc, lastTime, lastDuration, idx, mpc, nfIdx, nfVal,
                 started, stopped, nframes, perSecond, inInterval, bufVars, clsVars, commits>>

\* runTicker, line 173: <-c.ticker.C, the first firing is thrown away
FirstTick(t) ==
  /\ tpc[t] = "first"
  /\ tickerC # 0
  /\ tickerC' = 0
  /\ tpc' = [tpc EXCEPT ![t] = "select"]
  /\ UNCHANGED <<cFPS, ticks, frames, durations, totalFrames, totalDuration,
                 tickerOn, now, lastTime, lastDuration, idx, mpc, nfIdx, nfVal,
                 started, stopped, nframes, perSecond, inInterval, bufVars, clsVars, commits>>

\* runTicker, lines 176-177: case <-c.done: break.  The break leaves the
\* select, not the for: the goroutine is back at the select.  The receive
\* lets the Stop that sends on the unbuffered channel return.
ReceiveDone(t) ==
  /\ tpc[t] = "select"
  /\ mpc = "stop"
  /\ mpc' = "ready"
  /\ stopped' = stopped + 1
  /\ tpc' = [tpc EXCEPT ![t] = "select"]
  /\ UNCHANGED <<cFPS, ticks, frames, durations, totalFrames, totalDuration,
                 tickerOn, tickerC, now, lastTime, lastDuration, idx, nfIdx,
                 nfVal, started, nframes, perSecond, inInterval, bufVars, clsVars, commits>>

\* runTicker, lines 178-180: case t := <-c.ticker.C
ReceiveTick(t) ==
  /\ tpc[t] = "select"
  /\ tickerC # 0
  /\ lastDuration' = [lastDuration EXCEPT ![t] = tickerC - lastTime[t]]
  /\ lastTime' = [lastTime EXCEPT ![t] = tickerC]
  /\ tickerC' = 0
  /\ tpc' = [tpc EXCEPT ![t] = "commit"]
  /\ UNCHANGED <<cFPS, ticks, frames, durations, totalFrames, totalDuration,
                 tickerOn, now, idx, mpc, nfIdx, nfVal, started, stopped,
                 nframes, perSecond, inInterval, bufVars, clsVars, commits>>

\* runTicker, lines 182-185: commit the current bucket
Commit(t) ==
  /\ tpc[t] = "commit"
  /\ LET i == ticks % Len(frames) IN
       /\ idx' = [idx EXCEPT ![t] = i]
       /\ durations' = [durations EXCEPT ![i + 1] = lastDuration[t]]
       /\ totalFrames' = totalFrames + frames[i + 1]
       /\ totalDuration' = totalDuration + lastDuration[t]
       /\ commits' = Append(commits, [bucket |-> i, frames |-> frames[i + 1],
                                      duration |-> lastDuration[t]])
  /\ tpc' = [tpc EXCEPT ![t] = "advance"]
  /\ UNCHANGED <<cFPS, ticks, frames, tickerOn, tickerC, now, lastTime,
                 lastDuration, mpc, nfIdx, nfVal, started, stopped, nframes,
                 perSecond, inInterval, bufVars, clsVars>>

\* runTicker, line 187: c.ticks++
Advance(t) ==
  /\ tpc[t] = "advance"
  /\ ticks' = ticks + 1
  /\ tpc' = [tpc EXCEPT ![t] = "evict"]
  /\ UNCHANGED <<cFPS, frames, durations, totalFrames, totalDuration, tickerOn,
                 tickerC, now, lastTime, lastDuration, idx, mpc, nfIdx, nfVal,
                 started, stopped, nframes, perSecond, inInterval, bufVars, clsVars, commits>>

\* (mutant) the eviction forgetting the bucket's duration
EvictFramesOnly(t) ==
  /\ tpc[t] = "evict"
  /\ LET i == ticks % Len(frames) IN
       /\ idx' = [idx EXCEPT ![t] = i]
       /\ totalFrames' = totalFrames - frames[i + 1]
  /\ tpc' = [tpc EXCEPT ![t] = "zero"]
  /\ UNCHANGED <<cFPS, ticks, frames, durations, totalDuration, tickerOn,
                 tickerC, now, lastTime, lastDuration, mpc, nfIdx, nfVal,
                 started, stopped, nframes, perSecond, inInterval, bufVars, clsVars, commits>>

\* (mutant) the eviction run before c.ticks++ took effect: it evicts the
\* bucket the tick has just committed
EvictCommitted(t) ==
  /\ tpc[t] = "evict"
  /\ LET i == (ticks - 1) % Len(frames) IN
       /\ idx' = [idx EXCEPT ![t] = i]
       /\ totalFrames' = totalFrames - frames[i + 1]
       /\ totalDuration' = totalDuration - durations[i + 1]
  /\ tpc' = [tpc EXCEPT ![t] = "zero"]
  /\ UNCHANGED <<cFPS, ticks, frames, durations, tickerOn, tickerC, now,
                 lastTime, lastDuration, mpc, nfIdx, nfVal, started, stopped,
                 nframes, perSecond, inInterval, bufVars, clsVars, commits>>

\* runTicker, lines 188-190: evict the bucket the index now names
Evict(t) ==
  /\ tpc[t] = "evict"
  /\ LET i == ticks % Len(frames) IN
       /\ idx' = [idx EXCEPT ![t] = i]
       /\ totalFrames' = totalFrames - frames[i + 1]
       /\ totalDuration' = totalDuration - durations[i + 1]
  /\ tpc' = [tpc EXCEPT ![t] = "zero"]
  /\ UNCHANGED <<cFPS, ticks, frames, durations, tickerOn, tickerC, now,
                 lastTime, lastDuration, mpc, nfIdx, nfVal, started, stopped,
                 nframes, perSecond, inInterval, bufVars, clsVars, commits>>

\* runTicker, lines 191-194: zero that bucket and recompute c.FPS
Zero(t) ==
  /\ tpc[t] = "zero"
  /\ frames' = [frames EXCEPT ![idx[t] + 1] = 0]
  /\ durations' = [durations EXCEPT ![idx[t] + 1] = 0]
  /\ cFPS' = <<totalFrames, totalDuration>>
  /\ tpc' = [tpc EXCEPT ![t] = "select"]
  /\ UNCHANGED <<ticks, totalFrames, totalDuration, tickerOn, tickerC, now,
                 lastTime, lastDuration, idx, mpc, nfIdx, nfVal, started,
                 stopped, nframes, perSecond, inInterval, bufVars, clsVars, commits>>

\* FPSCounter.Duration(), in seconds
CounterDuration == totalDuration

\* NextFrame, c.frames[c.ticks % len(c.frames)]++, holds no lock: it is a read
\* of c.ticks, a read of the bucket and a write of the bucket
NextFrameIndex ==
  /\ mpc = "ready"
  /\ nframes < MaxFrames
  /\ nfIdx' = ticks % Len(frames)
  /\ mpc' = "nf_load"
  /\ UNCHANGED <<cFPS, ticks, frames, durations, totalFrames, totalDuration,
                 tickerOn, tickerC, now, tpc, lastTime, lastDuration, idx,
                 nfVal, started, stopped, nframes, perSecond, inInterval, bufVars, clsVars, commits>>

NextFrameLoad ==
  /\ mpc = "nf_load"
  /\ nfVal' = frames[nfIdx + 1]
  /\ mpc' = "nf_store"
  /\ UNCHANGED <<cFPS, ticks, frames, durations, totalFrames, totalDuration,
                 tickerOn, tickerC, now, tpc, lastTime, lastDuration, idx,
                 nfIdx, started, stopped, nframes, perSecond, inInterval, bufVars, clsVars, commits>>

NextFrameStore ==
  /\ mpc = "nf_store"
  /\ frames' = [frames EXCEPT ![nfIdx + 1] = nfVal + 1]
  /\ nframes' = nframes + 1
  /\ mpc' = "ready"
  /\ UNCHANGED <<cFPS, ticks, durations, totalFrames, totalDuration, tickerOn,
                 tickerC, now, tpc, lastTime, lastDuration, idx, nfIdx, nfVal,
                 started, stopped, perSecond, inInterval, bufVars, clsVars, commits>>

\* Stop: c.done <- struct{}{}; the send blocks until a goroutine receives
Stop ==
  /\ mpc = "ready"
  /\ started > stopped
  /\ mpc' = "stop"
  /\ UNCHANGED <<cFPS, ticks, frames, durations, totalFrames, totalDuration,
                 tickerOn, tickerC, now, tpc, lastTime, lastDuration, idx,
                 nfIdx, nfVal, started, stopped, nframes, perSecond, inInterval,
                 bufVars, clsVars, commits>>

\* a goroutine between two ticks
AtRest(t) == tpc[t] \in {"none", "new", "first", "select"}

\* steady driver: one whole NextFrame, run while no tick is being handled
SteadyNextFrame ==
  /\ mpc = "ready"
  /\ started = 1
  /\ inInterval < perSecond
  /\ tickerC = 0
  /\ \A t \in Tasks : AtRest(t)
  /\ frames' = [frames EXCEPT ![(ticks % Len(frames)) + 1] = @ + 1]
  /\ inInterval' = inInterval + 1
  /\ UNCHANGED <<cFPS, ticks, durations, totalFrames, totalDuration, tickerOn,
                 tickerC, now, tpc, lastTime, lastDuration, idx, mpc, nfIdx,
                 nfVal, started, stopped, nframes, perSecond, bufVars, clsVars, commits>>

\* steady driver: the ticker fires when the second's frames have all been
\* signalled and the last tick has been handled
SteadyTickerFire ==
  /\ tickerOn
  /\ now < SteadyTime
  /\ inInterval = perSecond
  /\ tickerC = 0
  /\ \A t \in Tasks : AtRest(t)
  /\ now' = now + 1
  /\ tickerC' = now + 1
  /\ inInterval' = 0
  /\ UNCHANGED <<cFPS, ticks, frames, durations, totalFrames, totalDuration,
                 tickerOn, tpc, lastTime, lastDuration, idx, mpc, nfIdx, nfVal,
                 started, stopped, nframes, perSecond, bufVars, clsVars, commits>>

\* ------------------------------------------------------- specifications
\* no FPSCounter / no MatBuffer in the run
NoCounter == NewFPSCounter(0) /\ perSecond = 0

NoBuffer ==
  /\ imgs = <<>>
  /\ times = <<>>
  /\ mats = <<>>
  /\ writes = 0
  /\ clock = 1
  /\ history = <<>>
  /\ bpc = "off"
  /\ logged = <<>>
  /\ export = NoExport
  /\ snapped = <<>>

\* Close is not part of the run
NoClose ==
  /\ cpc = "off"
  /\ ci = 0
  /\ closeLog = <<>>
  /\ closeErr = <<>>

\* the MatBuffer of the capture loop
Init == InitBuffer /\ NoCounter /\ NoClose

Next == CaptureFrame \/ Save

Spec == Init /\ [][Next]_vars

\* the FPSCounter, its caller and its goroutines, every interleaving
InitFPS ==
  /\ NoBuffer
  /\ \E seconds \in 1..MaxSeconds : NewFPSCounter(seconds)
  /\ perSecond = 0
  /\ NoClose

TaskNext ==
  \E t \in Tasks :
    \/ RunTickerInit(t)
    \/ FirstTick(t)
    \/ ReceiveDone(t)
    \/ ReceiveTick(t)
    \/ Commit(t)
    \/ Advance(t)
    \/ Evict(t)
    \/ Zero(t)

CallerNext == Start \/ NextFrameIndex \/ NextFrameLoad \/ NextFrameStore \/ Stop

NextFPS == CallerNext \/ TaskNext \/ TickerFire

SpecFPS == InitFPS /\ [][NextFPS]_vars

\* the goroutines and the ticker keep running
FairSpecFPS == SpecFPS /\ WF_vars(TaskNext) /\ WF_vars(TickerFire)

\* an FPSCounter of up to main.go's 5 seconds fed a steady number of frames
InitSteady ==
  /\ NoBuffer
  /\ \E seconds \in 1..WindowLength : NewFPSCounter(seconds)
  /\ perSecond \in 0..MaxRate
  /\ NoClose

TaskSteady ==
  \/ RunTickerInit(1)
  \/ FirstTick(1)
  \/ ReceiveTick(1)
  \/ Commit(1)
  \/ Advance(1)
  \/ Evict(1)
  \/ Zero(1)

NextSteady == Start \/ TaskSteady \/ SteadyNextFrame \/ SteadyTickerFire

SpecSteady == InitSteady /\ [][NextSteady]_vars

\* buffers of 0 to 10 slots filled at an even pace
InitEven ==
  /\ \E fps10 \in 0..EvenFPS10 :
       LET nslots == NewMatBufferFrames(BufferDuration, fps10) IN
         /\ imgs = [i \in 1..nslots |-> i]
         /\ times = [i \in 1..nslots |-> ZeroTime]
         /\ mats = [i \in 1..nslots |-> EmptyMat]
  /\ writes = 0
  /\ clock = 1
  /\ history = <<>>
  /\ bpc = "loop"
  /\ logged = <<>>
  /\ export = NoExport
  /\ snapped = <<>>
  /\ NoCounter
  /\ NoClose

NextEven == CaptureEven \/ Save

SpecEven == InitEven /\ [][NextEven]_vars

\* buffers of 0 to 3 slots filled at an even pace, Slice called between the
\* Adds
NextSlice == CaptureEven \/ CallSlice \/ Save

SpecSlice == Init /\ [][NextSlice]_vars

\* Close on a MatBuffer as NewMatBuffer made it (Close reads no frame)
InitClose ==
  /\ InitBuffer
  /\ NoCounter
  /\ cpc = "open"
  /\ ci = 0
  /\ closeLog = <<>>
  /\ closeErr = <<>>

NextClose == CloseBegin \/ CloseFirst \/ CloseAgain \/ CloseReturn

SpecClose == InitClose /\ [][NextClose]_vars

\* ------------------------------------------------------------ the claims
\* the frames (matrices) a list of pointers leads to
Deref(list) == [k \in 1..Len(list) |-> mats[list[k]]]

\* the number of frames the buffer retains
Retained == Min(Len(history), Cap)

\* C1: for capacity C >= 1 and w Adds, Slice returns exactly min(w, C) frames,
\* and they are the last min(w, C) frames added, oldest first.
C1_SliceIsLastFrames ==
  Cap >= 1 =>
    /\ Len(Slice) = Retained
    /\ \A k \in 1..Retained :
         mats[Slice[k]].id = history[Len(history) - Retained + k][1]

\* C1 witness: 2C+1 Adds into 3 slots (two wraps), the snapshot starting at
\* the 5th frame.
C1_Witness ==
  /\ Cap = 3
  /\ Len(history) = 2 * Cap + 1
  /\ Len(Slice) = 3
  /\ mats[Slice[1]].id = 5

\* C7: FPS is 0 with fewer than 2 frames added, and otherwise min(w, capacity)
\* over Duration() - at every state, and as logged at main.go:196.
C7_FPSIsRetainedOverDuration ==
  Cap >= 1 =>
    /\ Len(history) < 2 => FPS = <<0, 1>>
    /\ Len(history) >= 2 => FPS = <<Min(Len(history), Cap), Duration>>
    /\ (bpc = "saved" /\ Len(history) >= 2) =>
         logged[2] = <<Min(Len(history), Cap), logged[1]>>

\* C7 witness: 2 frames in 3 slots (numerator w, not the capacity), logged.
C7_Witness ==
  /\ Cap = 3
  /\ Len(history) = 2
  /\ bpc = "saved"
  /\ logged[2][1] = 2
  /\ logged[2][2] > 0

\* C8: TimeWindow is the zero pair with no frame added; otherwise it is
\* (timestamp of the oldest retained frame, timestamp of the last frame added),
\* read from slots 0 and w-1 while w <= C and from slots w mod C and
\* (w-1) mod C after a wrap; oldest <= newest.
C8_TimeWindowIsOldestNewest ==
  Cap >= 1 =>
    LET w == Len(history) IN
    /\ w = 0 => TimeWindow = <<ZeroTime, ZeroTime>>
    /\ w >= 1 =>
         /\ TimeWindow = <<history[w - Retained + 1][2], history[w][2]>>
         /\ TimeWindow = <<times[(IF w <= Cap THEN 0 ELSE w % Cap) + 1],
                           times[((w - 1) % Cap) + 1]>>
         /\ TimeWindow[1] <= TimeWindow[2]

\* C8 witness: 5 Adds into 3 slots, the window running from the 3rd frame's
\* timestamp (slot 2) to the 5th's (slot 1).
C8_Witness ==
  /\ Cap = 3
  /\ Len(history) = 5
  /\ TimeWindow = <<times[3], times[2]>>
  /\ TimeWindow[1] < TimeWindow[2]

\* C9: WriteFile on a buffer retaining 0 or 1 frame fails with
\* InsufficientFrames, the video writer never opened, nothing written.
C9_TooFewFramesNoWriter ==
  (bpc = "saved" /\ Retained <= 1) =>
    /\ export.err = "InsufficientFrames"
    /\ ~export.opened
    /\ export.written = <<>>

\* C9 witness: an export of a 1-slot buffer after 3 Adds (1 frame retained).
C9_Witness ==
  /\ bpc = "saved"
  /\ Cap = 1
  /\ Len(history) = 3
  /\ export.err = "InsufficientFrames"

\* the first frame of the snapshot whose size differs from the first's (0: none)
FirstMismatch ==
  LET s == Slice
      bad == {k \in 1..Len(s) : \/ mats[s[k]].cols # mats[s[1]].cols
                                \/ mats[s[k]].rows # mats[s[1]].rows}
  IN IF bad = {} THEN 0 ELSE CHOOSE k \in bad : \A j \in bad : k <= j

\* C10: when the export loop meets a frame of another size than the first's,
\* it fails with DimensionMismatch at once: exactly the frames before it have
\* been written (a Write rejected before that frame ends the export earlier).
C10_MismatchAborts ==
  (bpc = "saved" /\ export.opened /\ FirstMismatch > 0) =>
    /\ export.err \in {"DimensionMismatch", "WriteFailed"}
    /\ export.err = "DimensionMismatch" =>
         export.written = Deref(SubSeq(Slice, 1, FirstMismatch - 1))
    /\ export.err = "WriteFailed" => Len(export.written) < FirstMismatch - 1
    /\ \A k \in 1..Len(export.written) :
         /\ export.written[k].cols = export.vwSize[1]
         /\ export.written[k].rows = export.vwSize[2]

\* C10 witness: 3 retained frames, the 2nd of another size, followed by a
\* frame of the right size that is not written either.
C10_Witness ==
  /\ bpc = "saved"
  /\ Len(Slice) = 3
  /\ FirstMismatch = 2
  /\ mats[Slice[3]].cols = mats[Slice[1]].cols
  /\ mats[Slice[3]].rows = mats[Slice[1]].rows
  /\ export.err = "DimensionMismatch"
  /\ Len(export.written) = 1

\* the goroutines that have been started and have not left runTicker; no
\* step of runTicker leads to "exited" (line 197 follows a for without exit)
Live == {t \in Tasks : tpc[t] \notin {"none", "exited"}}

\* every Stop called has returned, and no Start has followed the last
StopHasReturned == started >= 1 /\ stopped = started /\ mpc # "stop"

RECURSIVE SumSeq(_)
SumSeq(q) == IF q = <<>> THEN 0 ELSE q[1] + SumSeq(Tail(q))

\* the sum of q over the buckets other than the current one
SumOthers(q) == SumSeq(q) - q[(ticks % Len(q)) + 1]

\* C2: once Stop has returned, no step changes the tick index, the running
\* totals, the bucket durations or the reported rate, and no bucket's frame
\* count is taken back (NextFrame may still add to one).
C2_NoTickAfterStop ==
  [][StopHasReturned =>
       /\ ticks' = ticks
       /\ totalFrames' = totalFrames
       /\ totalDuration' = totalDuration
       /\ durations' = durations
       /\ cFPS' = cFPS
       /\ \A i \in 1..Len(frames) : frames'[i] >= frames[i]]_vars

\* C3: NextFrame may run alongside a tick: with one goroutine, whenever no
\* tick is being handled totalFrames is the sum of the frame counts of the
\* buckets other than the current one, and it is never negative.
C3_NextFrameSafeWithTick ==
  started <= 1 =>
    /\ totalFrames >= 0
    /\ (\A t \in Tasks : AtRest(t)) => totalFrames = SumOthers(frames)

\* runTicker has no step that leaves its for loop (an invariant of SpecFPS):
\* a run of the bounded model ends with the goroutine waiting in the select,
\* where the program's ticker would go on waking it for ever.
RunTickerNeverReturns == \A t \in Tasks : tpc[t] # "exited"

\* C4: after Stop has returned, the goroutine that was started eventually
\* leaves runTicker.
C4_StopTerminatesTask == (stopped >= 1) ~> (tpc[1] = "exited")

\* C5: with no Start before the Stop of the Start before it has returned,
\* at most one goroutine is live at any time.
C5_AtMostOneTask == Cardinality(Live) <= 1

\* C6: window length 5, exactly R frames signalled per second, no races:
\* after every tick from the 5th on the rate is R (totalFrames = R *
\* totalDuration, totalDuration > 0, c.FPS their quotient), the totals cover
\* the buckets other than the current one, and the tick that fires in the
\* 6th second has evicted the first bucket's contribution.
C6_SteadyRate ==
  (Len(frames) = WindowLength /\ tpc[1] = "select" /\ ticks >= WindowLength) =>
    /\ totalDuration > 0
    /\ totalFrames = perSecond * totalDuration
    /\ cFPS = <<totalFrames, totalDuration>>
    /\ totalFrames = SumOthers(frames)
    /\ totalDuration = SumOthers(durations)
    /\ ticks = WindowLength =>
         /\ lastTime[1] = WindowLength + 1
         /\ durations[1] = 0
         /\ totalDuration = SumSeq(SubSeq(durations, 2, WindowLength))
         /\ totalFrames = SumSeq(SubSeq(frames, 2, WindowLength))

\* C6 witness: 2 frames per second, the tick after the one that wrapped the
\* window has been handled: 8 frames over 4 seconds.
C6_Witness ==
  /\ Len(frames) = WindowLength
  /\ perSecond = 2
  /\ tpc[1] = "select"
  /\ ticks = WindowLength + 1
  /\ totalFrames = 8
  /\ cFPS = <<8, 4>>

\* C11: when WriteFile succeeds, the frames handed to the video writer are
\* exactly the snapshot: one Write per retained frame, oldest first, the
\* writer opened at FPS() with the first frame's size (and closed).
C11_ExportWritesSnapshot ==
  (bpc = "saved" /\ export.err = "ok") =>
    /\ export.opened
    /\ export.closed
    /\ Len(export.written) = Retained
    /\ export.written = Deref(Slice)
    /\ \A k \in 1..Retained :
         export.written[k].id = history[Len(history) - Retained + k][1]
    /\ export.vwFPS = <<Min(Len(history), Cap), Duration>>
    /\ export.vwFPS = logged[2]
    /\ export.vwSize = <<mats[Slice[1]].cols, mats[Slice[1]].rows>>

\* C11 witness: 5 Adds into 3 slots exported: frames 3, 4, 5 written.
C11_Witness ==
  /\ bpc = "saved"
  /\ export.err = "ok"
  /\ Cap = 3
  /\ Len(history) = 5
  /\ Len(export.written) = 3
  /\ export.written[1].id = 3
  /\ export.written[3].id = 5

\* the calls of img.Close() on slot p, in order
CallsOn(p) == SelectSeq(closeLog, LAMBDA c : c.slot = p)

\* the slots whose release (the first Close of the slot) failed
FailedSlots == {p \in 1..Cap : CallsOn(p) # <<>> /\ CallsOn(p)[1].failed}

\* C12: Close tries to release every slot even when releases fail, and it
\* returns the error of the first slot, in index order, whose release failed
\* (the slot's first img.Close()), or nil when none failed.
C12_CloseBestEffort ==
  cpc = "closed" =>
    /\ \A p \in 1..Cap : CallsOn(p) # <<>>
    /\ FailedSlots = {} <=> closeErr = <<>>
    /\ FailedSlots # {} =>
         /\ closeErr[1] \in FailedSlots
         /\ \A p \in FailedSlots : closeErr[1] <= p
         /\ closeLog[closeErr[2]].slot = closeErr[1]
         /\ closeLog[closeErr[2]].failed
         /\ \A k \in 1..(closeErr[2] - 1) : closeLog[k].slot # closeErr[1]

\* C12 witness: 3 slots, the releases of slots 2 and 3 fail: slot 2's error
\* is returned and slot 3 has been tried all the same.
C12_Witness ==
  /\ cpc = "closed"
  /\ Cap = 3
  /\ FailedSlots = {2, 3}
  /\ closeErr[1] = 2

\* C20: Close calls img.Close() exactly once on each slot: never twice on a
\* slot, and once on every slot when it returns.
C20_CloseOncePerSlot ==
  /\ \A p \in 1..Cap : Len(CallsOn(p)) <= 1
  /\ cpc = "closed" => \A p \in 1..Cap : Len(CallsOn(p)) = 1

\* C13: a MatBuffer whose computed capacity is 0 is rejected at construction:
\* no Add and no export (TimeWindow, FPS, Slice) ever runs on a buffer
\* without slots, and no division by zero happens.
C13_ZeroCapacityRejected ==
  /\ bpc # "panic"
  /\ Cap = 0 => bpc \notin {"saved", "panic"}

\* a float64 rate in frames per time unit, as frames per second rounded to
\* the nearest integer
RoundedPerSecond(q) == (2 * q[1] * UnitsPerSecond + q[2]) \div (2 * q[2])

\* C14: capacity 10, 20 Adds 100 ms apart: FPS is 10 frames per second, the
\* rate at which the frames were added.
C14_EvenRateIsTen ==
  (Cap = 10 /\ Len(history) = 20) =>
    /\ FPS[1] * UnitsPerSecond = 10 * FPS[2]
    /\ RoundedPerSecond(FPS) = 10

\* the frames and the duration the k-th handled tick committed; nothing for
\* a tick that never was
Committed(k) ==
  IF k \in 1..Len(commits) THEN <<commits[k].frames, commits[k].duration>>
  ELSE <<0, 0>>

CommitStep == tpc[1] = "commit" /\ tpc'[1] = "advance"

EvictStep == tpc[1] = "evict" /\ tpc'[1] = "zero"

\* the totals move by what one tick committed at its commit, by what tick
\* number `ticks - lag` committed at the eviction of tick number `ticks`,
\* and at no other step
TotalsFollow(lag) ==
  /\ CommitStep =>
       /\ Len(commits') = ticks + 1
       /\ totalFrames' = totalFrames + Committed(ticks + 1)'[1]
       /\ totalDuration' = totalDuration + Committed(ticks + 1)'[2]
  /\ EvictStep =>
       /\ totalFrames' = totalFrames - Committed(ticks - lag)[1]
       /\ totalDuration' = totalDuration - Committed(ticks - lag)[2]
  /\ ~(CommitStep \/ EvictStep) =>
       /\ totalFrames' = totalFrames
       /\ totalDuration' = totalDuration

\* C15: a bucket's frames and duration enter the totals once, at the tick
\* that commits the bucket, and leave them once, at the tick that comes
\* exactly N ticks (N = window length) after that commit, at no other tick.
C15_EvictedNTicksAfterCommit == [][TotalsFollow(Len(frames))]_vars

\* what runTicker does instead: the eviction comes N - 1 ticks after the
\* commit, in the committing tick itself when N = 1
EvictedOneTickEarly == [][TotalsFollow(Len(frames) - 1)]_vars

C19_DivisorPositive ==
  \A t \in Tasks : tpc[t] = "zero" => totalDuration > 0

\* C17: Add(frame, t) on capacity C with write counter w changes only the
\* slot at index w mod C, whose content becomes a copy of the frame and whose
\* timestamp becomes t, and increments w by exactly 1; every other slot
\* keeps its content and timestamp.
C17_AddWritesOneSlot ==
  [][history' # history =>
       LET i == writes % Cap
           added == history'[Len(history')]
       IN /\ writes' = writes + 1
          /\ imgs' = imgs
          /\ mats'[imgs[i + 1]].id = added[1]
          /\ times'[i + 1] = added[2]
          /\ times'[i + 1] = clock'
          /\ \A p \in 1..Cap : p # i + 1 =>
               /\ mats'[imgs[p]] = mats[imgs[p]]
               /\ times'[p] = times[p]]_vars

\* C17 witness: the 5th Add into 3 slots has written slot 1 (4 mod 3), the
\* slots beside it keeping the 4th and the 3rd frame.
C17_Witness ==
  /\ Cap = 3
  /\ writes = 5
  /\ mats[imgs[2]].id = 5
  /\ times[2] = clock
  /\ mats[imgs[1]].id = 4
  /\ mats[imgs[3]].id = 3

\* the last Add that went to physical slot p (1-based); 0 when none did
LastWrite(p) ==
  LET ks == {k \in 1..Len(history) : (k - 1) % Cap = p - 1}
  IN IF ks = {} THEN 0 ELSE CHOOSE k \in ks : \A j \in ks : j <= k

\* C18: Slice is read-only. A call of Slice leaves the slot order, every
\* slot's content and timestamp and the write counter as they were; so,
\* however many calls are made between the Adds, the slots stay in the order
\* of construction, slot w mod C is the one each Add has written, and a
\* snapshot is the last min(w, C) frames added, oldest first.
C18_SliceReadOnly ==
  /\ [][snapped' # snapped =>
          /\ imgs' = imgs
          /\ times' = times
          /\ mats' = mats
          /\ writes' = writes]_vars
  /\ [](/\ imgs = [p \in 1..Cap |-> p]
        /\ writes = Len(history)
        /\ \A p \in 1..Cap :
             IF LastWrite(p) = 0
               THEN mats[imgs[p]] = EmptyMat /\ times[p] = ZeroTime
             ELSE /\ mats[imgs[p]].id = history[LastWrite(p)][1]
                  /\ times[p] = history[LastWrite(p)][2]
        /\ Len(Slice) = Retained
        /\ \A k \in 1..Retained :
             mats[Slice[k]].id = history[Len(history) - Retained + k][1])

\* C18 witness: 3 slots; Slice called after the wrap at 4 and at 5 writes (the
\* append of line 98 at work), two Adds later the 7th frame is in slot 0 and
\* the snapshot is frames 5, 6, 7.
C18_Witness ==
  /\ Cap = 3
  /\ snapped = <<4, 5>>
  /\ writes = 7
  /\ mats[imgs[1]].id = 7
  /\ [k \in 1..Len(Slice) |-> mats[Slice[k]].id] = <<5, 6, 7>>
====
